---- MODULE Spec2Model ----
(***************************************************************************)
(* Model of the resource core of src/src/asset.rs: ResourceRef (handle     *)
(* with an Arc<u32> counter), ResourcePool (slots + free list) and the     *)
(* thread-local registry ALL_RESOURCES; and of the path functions get_dir   *)
(* and get_asset_path_local on strings taken as character sequences.       *)
(*                                                                         *)
(* Indices are 0-based as in the source; TLA+ sequences are 1-based, so    *)
(* slot idx of a pool is entries[idx + 1].                                 *)
(*                                                                         *)
(* A panic is an outcome of the call: the state left behind is the state   *)
(* after unwinding (what std::panic::catch_unwind would observe).  A panic *)
(* raised while unwinding aborts the process: no further step is taken.    *)
(***************************************************************************)
EXTENDS Integers, Sequences, FiniteSets, TLC

\* ---------------------------------------------------------------- bounds
MaxAdds == 2        \* at most this many handles are ever issued
MaxVal == 2         \* resources are the values 1..MaxVal
MaxInitSlots == 2   \* SpecPool: slot count of the pool value add is applied to
MaxLen == 3         \* SpecPath: length of the strings the path functions get

Vals == 1..MaxVal
Threads == {"A", "B"}
TypeIds == {"T"}
\* Two pools of the same element type T, both owned by the caller.
Pools == {"p1", "p2"}
PoolTypeId == "T"

VARIABLES
    pools,      \* pools[p]: the ResourcePool value [entries, free_indices]
    poolLive,   \* the pools that have not been dropped
    arcs,       \* arcs[c]: the Arc<u32> allocation c: [value, strong]
    handles,    \* handles[k]: the k-th ResourceRef ever created
    registry,   \* registry[t]: thread t's ALL_RESOURCES map, TypeId -> Box<dyn Any>
    aborted,    \* the process aborted (panic while panicking)
    last,       \* the last call and what it returned
    pc,         \* pc[t]: where thread t is inside a clone or drop it runs
    path        \* the last path function applied, its arguments and result

vars == <<pools, poolLive, arcs, handles, registry, aborted, last, pc, path>>

\* ------------------------------------------------------------ data model
\* Option<ResourceEntry<T>>: None, or Some(ResourceEntry {resource, ref_cnt}).
None == [some |-> FALSE, resource |-> 0, ref_cnt |-> 0]
Some(res, cnt) == [some |-> TRUE, resource |-> res, ref_cnt |-> cnt]

\* ResourcePool::new
NewPool == [entries |-> <<>>, free_indices |-> <<>>]

\* A Box<dyn Any>: the dynamic type of the boxed value and the value.  A
\* HashMap<TypeId, ResourcePool<T>> is only ever empty; its val is unused.
NoBox == [present |-> FALSE, dyn |-> "-", val |-> NewPool]
BoxOf(dynType, v) == [present |-> TRUE, dyn |-> dynType, val |-> v]

\* ResourceRef { idx, type_id, ref_cnt }.  live: not yet dropped.  pool and
\* val record the add call that issued it (the pool, or the thread for the
\* registry, and the resource added).
ResourceRef(i, ty, cnt, p, v) ==
    [idx |-> i, type_id |-> ty, ref_cnt |-> cnt, live |-> TRUE, pool |-> p, val |-> v]

NoLast == [op |-> "none", outcome |-> "ok", who |-> "-", ty |-> "-",
           h |-> 0, value |-> 0, before |-> 0, cb |-> "-", nested |-> "none"]

\* The closures passed to with_local_resource / with_local_resource_pool:
\* one that only uses its argument (storing w into the resource, or reading
\* the pool), and ones that call back into the registry of the same thread.
ReentrantKinds == {"add", "with", "with_pool"}
Callbacks == {[kind |-> "store", w |-> v] : v \in Vals}
                \cup {[kind |-> c, w |-> 0] : c \in ReentrantKinds}

\* A thread's position inside ResourceRef::clone or ResourceRef::drop on
\* handle h: about to call Arc::get_mut(..).unwrap() ("getmut"), about to read
\* the u32 through the &mut ("load"), about to write it back ("store"); tmp is
\* the value read; unwinding: the drop is that of clone's ret after a panic.
\* "dead": the thread ended with a panic.
Idle == [op |-> "idle", at |-> "-", h |-> 0, tmp |-> 0, unwinding |-> FALSE]
Dead == [op |-> "dead", at |-> "-", h |-> 0, tmp |-> 0, unwinding |-> FALSE]
At(o, a, k, v, u) == [op |-> o, at |-> a, h |-> k, tmp |-> v, unwinding |-> u]

\* No path function applied yet.
NoPath == [op |-> "none", base |-> <<>>, rel |-> <<>>, out |-> <<>>]

\* ------------------------------------------------------------ Arc<u32>
\* Arc::new(1) followed by ref_cnt.clone() into the entry: two strong refs.
ArcNew(v) == [value |-> v, strong |-> 1]
ArcClone(a) == [a EXCEPT !.strong = @ + 1]
ArcDrop(a) == [a EXCEPT !.strong = @ - 1]
\* get_mut that hands out the &mut whenever the allocation is alive.
ArcGetMut_Always(a) == a.strong >= 1

\* Arc::get_mut is Some only for the unique strong reference (no Weak exists).
ArcGetMut(a) == a.strong = 1

\* ------------------------------------------------------------ ResourceRef
\* impl Drop: *Arc::get_mut(&mut self.ref_cnt).unwrap() -= 1, then the field
\* ref_cnt is released (also when drop panicked).  The counter is 1 whenever
\* get_mut succeeds here, so the u32 subtraction cannot underflow.
RefDrop(h, as) ==
    LET c == h.ref_cnt IN
    IF ArcGetMut(as[c])
    THEN [outcome |-> "ok",
          arcs |-> [as EXCEPT ![c] = ArcDrop([@ EXCEPT !.value = @ - 1])]]
    ELSE [outcome |-> "panic", arcs |-> [as EXCEPT ![c] = ArcDrop(@)]]

\* impl Clone: ret.ref_cnt = self.ref_cnt.clone(); then
\* *Arc::get_mut(&mut ret.ref_cnt).unwrap() += 1.  When unwrap panics, ret is
\* dropped while unwinding; a panic in that drop aborts the process.
RefClone(h, as) ==
    LET c == h.ref_cnt
        a1 == [as EXCEPT ![c] = ArcClone(@)]
    IN  IF ArcGetMut(a1[c])
        THEN [outcome |-> "ok", arcs |-> [a1 EXCEPT ![c].value = @ + 1]]
        ELSE LET d == RefDrop(h, a1) IN
             [outcome |-> IF d.outcome = "ok" THEN "panic" ELSE "abort",
              arcs |-> d.arcs]

\* ------------------------------------------------------------ ResourcePool
\* Variants of add with a plausible slip each: storing over the last slot
\* instead of pushing; recording the pushed index as free; taking the oldest
\* free index instead of the newest.
PoolAdd_Overwrite(pool, res, cnt) ==
    IF pool.entries = <<>>
    THEN [outcome |-> "ok",
          pool |-> [pool EXCEPT !.entries = Append(@, Some(res, cnt))],
          idx |-> 0]
    ELSE [outcome |-> "ok",
          pool |-> [pool EXCEPT !.entries[Len(pool.entries)] = Some(res, cnt)],
          idx |-> Len(pool.entries) - 1]

PoolAdd_PushFree(pool, res, cnt) ==
    [outcome |-> "ok",
     pool |-> [entries |-> Append(pool.entries, Some(res, cnt)),
               free_indices |-> Append(pool.free_indices, Len(pool.entries))],
     idx |-> Len(pool.entries)]

PoolAdd_Fifo(pool, res, cnt) ==
    IF pool.free_indices = <<>>
    THEN [outcome |-> "ok",
          pool |-> [pool EXCEPT !.entries = Append(@, Some(res, cnt))],
          idx |-> Len(pool.entries)]
    ELSE LET idx == pool.free_indices[1] IN
         [outcome |-> "ok",
          pool |-> [entries |-> [pool.entries EXCEPT ![idx + 1] = Some(res, cnt)],
                    free_indices |-> Tail(pool.free_indices)],
          idx |-> idx]

\* ResourcePool::add, given the entry's clone of the counter cnt.
PoolAdd(pool, res, cnt) ==
    IF pool.free_indices = <<>>
    THEN [outcome |-> "ok",
          pool |-> [pool EXCEPT !.entries = Append(@, Some(res, cnt))],
          idx |-> (Len(pool.entries) + 1) - 1]
    ELSE LET n == Len(pool.free_indices)
             idx == pool.free_indices[n]
             rest == SubSeq(pool.free_indices, 1, n - 1)
         IN  IF idx >= Len(pool.entries)
             THEN [outcome |-> "panic",
                   pool |-> [pool EXCEPT !.free_indices = rest],
                   idx |-> idx]
             ELSE [outcome |-> "ok",
                   pool |-> [entries |-> [pool.entries EXCEPT ![idx + 1] = Some(res, cnt)],
                             free_indices |-> rest],
                   idx |-> idx]

\* get without the unwrap check: a vacant slot yields whatever it holds.
PoolGet_NoUnwrap(pool, h) ==
    IF h.idx >= Len(pool.entries) THEN [outcome |-> "panic", value |-> 0]
    ELSE [outcome |-> "ok", value |-> pool.entries[h.idx + 1].resource]

\* ResourcePool::get: &self.entries[idx] (bounds-checked), .as_ref().unwrap().
PoolGet(pool, h) ==
    IF h.idx >= Len(pool.entries) THEN [outcome |-> "panic", value |-> 0]
    ELSE IF ~pool.entries[h.idx + 1].some THEN [outcome |-> "panic", value |-> 0]
    ELSE [outcome |-> "ok", value |-> pool.entries[h.idx + 1].resource]

\* get_mut that hands back the resource added under the handle, whatever the
\* accessed pool stores at the index.
PoolGetMut_OwnValue(pool, h) ==
    IF h.idx >= Len(pool.entries) THEN [outcome |-> "panic", value |-> 0]
    ELSE IF ~pool.entries[h.idx + 1].some THEN [outcome |-> "panic", value |-> 0]
    ELSE [outcome |-> "ok", value |-> h.val]

\* ResourcePool::get_mut: &mut self.entries[idx], .as_mut().unwrap().
PoolGetMut(pool, h) ==
    IF h.idx >= Len(pool.entries) THEN [outcome |-> "panic", value |-> 0]
    ELSE IF ~pool.entries[h.idx + 1].some THEN [outcome |-> "panic", value |-> 0]
    ELSE [outcome |-> "ok", value |-> pool.entries[h.idx + 1].resource]

\* Dropping a pool drops every entry, releasing the entry's strong reference.
PoolDropArcs(pool, as) ==
    [c \in DOMAIN as |->
        IF \E i \in DOMAIN pool.entries :
              pool.entries[i].some /\ pool.entries[i].ref_cnt = c
        THEN ArcDrop(as[c]) ELSE as[c]]

\* ------------------------------------------------------------ registry
\* <dyn Any>::downcast_mut::<D>() is Some iff the boxed value's type is D.
Downcast(box, dynType) == box.present /\ box.dyn = dynType

\* add_local_resource: inserts Box::new(HashMap<TypeId, ResourcePool<T>>) when
\* the key is absent, then downcasts the box to ResourcePool<T> and adds.
AddLocalResource(map, ty, res, cnt) ==
    LET m1 == IF ~map[ty].present
              THEN [map EXCEPT ![ty] = BoxOf("HashMap", NewPool)]
              ELSE map
    IN  IF ~Downcast(m1[ty], "ResourcePool")
        THEN [outcome |-> "panic", map |-> m1, idx |-> 0]
        ELSE LET r == PoolAdd(m1[ty].val, res, cnt) IN
             [outcome |-> r.outcome, map |-> [m1 EXCEPT ![ty].val = r.pool], idx |-> r.idx]

\* RefCell::borrow_mut succeeds iff no borrow of the cell is active; otherwise
\* it panics (already borrowed).
RefCellBorrowMut(borrowed) == ~borrowed

\* The registry call a closure makes while the caller's RefMut of the map is
\* alive: add_local_resource, with_local_resource and
\* with_local_resource_pool all start with ref_cell.borrow_mut().
\* "none": the closure makes no such call.
NestedCall(f, borrowed) ==
    IF f.kind \notin ReentrantKinds THEN "none"
    ELSE IF RefCellBorrowMut(borrowed) THEN "ok"
    ELSE "panic"

\* with_local_resource: ref_cell.borrow_mut(), then
\* map.get_mut(&type_id).unwrap().downcast_mut().unwrap(),
\* pool.entries[idx].as_mut().unwrap(), then f(res).  A panic inside f
\* unwinds through the call; the RefMut is released on every exit.
WithLocalResource(map, h, f) ==
    LET box == map[h.type_id]
        fail == [outcome |-> "panic", map |-> map, calls |-> 0, nested |-> "none"]
    IN
    IF ~RefCellBorrowMut(FALSE) THEN fail
    ELSE IF ~box.present THEN fail
    ELSE IF ~Downcast(box, "ResourcePool") THEN fail
    ELSE IF h.idx >= Len(box.val.entries) THEN fail
    ELSE IF ~box.val.entries[h.idx + 1].some THEN fail
    ELSE LET n == NestedCall(f, TRUE) IN
         IF n = "panic"
         THEN [outcome |-> "panic", map |-> map, calls |-> 1, nested |-> n]
         ELSE [outcome |-> "ok",
               map |-> IF f.kind = "store"
                       THEN [map EXCEPT ![h.type_id].val.entries[h.idx + 1].resource = f.w]
                       ELSE map,
               calls |-> 1, nested |-> n]

\* with_local_resource_pool: ref_cell.borrow_mut(), then
\* map.get_mut(&type_id).unwrap().downcast_mut().unwrap(), then f(pool).
WithLocalResourcePool(map, ty, f) ==
    LET box == map[ty]
        fail == [outcome |-> "panic", map |-> map, calls |-> 0, nested |-> "none"]
    IN
    IF ~RefCellBorrowMut(FALSE) THEN fail
    ELSE IF ~box.present THEN fail
    ELSE IF ~Downcast(box, "ResourcePool") THEN fail
    ELSE LET n == NestedCall(f, TRUE) IN
         [outcome |-> IF n = "panic" THEN "panic" ELSE "ok",
          map |-> map, calls |-> 1, nested |-> n]

\* ------------------------------------------------------------ initial state
\* No pool has been used: ResourcePool::new for both, empty registries.
Init ==
    /\ pools = [p \in Pools |-> NewPool]
    /\ poolLive = Pools
    /\ arcs = <<>>
    /\ handles = <<>>
    /\ registry = [t \in Threads |-> [ty \in TypeIds |-> NoBox]]
    /\ aborted = FALSE
    /\ last = NoLast
    /\ pc = [t \in Threads |-> Idle]
    /\ path = NoPath

\* ------------------------------------------------------------ actions
LiveHandles == {k \in DOMAIN handles : handles[k].live}

\* let h = pool.add(v)
Add(p, v) ==
    /\ ~aborted
    /\ p \in poolLive
    /\ Len(handles) < MaxAdds
    /\ LET c == Len(arcs) + 1
           r == PoolAdd(pools[p], v, c)
       IN  /\ pools' = [pools EXCEPT ![p] = r.pool]
           /\ IF r.outcome = "ok"
              THEN /\ arcs' = Append(arcs, ArcClone(ArcNew(1)))
                   /\ handles' = Append(handles, ResourceRef(r.idx, PoolTypeId, c, p, v))
              ELSE UNCHANGED <<arcs, handles>>
           /\ last' = [NoLast EXCEPT !.op = "add", !.outcome = r.outcome, !.who = p,
                                     !.h = IF r.outcome = "ok" THEN Len(handles) + 1 ELSE 0,
                                     !.value = v, !.before = Len(pools[p].entries)]
    /\ UNCHANGED <<poolLive, registry, aborted, pc, path>>

\* pool.get(&h)
Get(p, k) ==
    /\ ~aborted
    /\ p \in poolLive
    /\ k \in LiveHandles
    /\ LET r == PoolGet(pools[p], handles[k]) IN
       last' = [NoLast EXCEPT !.op = "get", !.outcome = r.outcome, !.who = p,
                              !.h = k, !.value = r.value]
    /\ UNCHANGED <<pools, poolLive, arcs, handles, registry, aborted, pc, path>>

\* pool.get_mut(&h); what the caller stores through the borrow is its own code.
GetMut(p, k) ==
    /\ ~aborted
    /\ p \in poolLive
    /\ k \in LiveHandles
    /\ LET r == PoolGetMut(pools[p], handles[k]) IN
       last' = [NoLast EXCEPT !.op = "get_mut", !.outcome = r.outcome, !.who = p,
                              !.h = k, !.value = r.value]
    /\ UNCHANGED <<pools, poolLive, arcs, handles, registry, aborted, pc, path>>

\* h.clone()
Clone(k) ==
    /\ ~aborted
    /\ k \in LiveHandles
    /\ Len(handles) < MaxAdds + 1
    /\ LET h == handles[k]
           r == RefClone(h, arcs)
       IN  /\ arcs' = r.arcs
           /\ handles' = IF r.outcome = "ok" THEN Append(handles, h) ELSE handles
           /\ aborted' = (r.outcome = "abort")
           /\ last' = [NoLast EXCEPT !.op = "clone", !.outcome = r.outcome, !.h = k,
                                     !.value = IF r.outcome = "ok" THEN Len(handles) + 1 ELSE 0,
                                     !.before = arcs[h.ref_cnt].value]
    /\ UNCHANGED <<pools, poolLive, registry, pc, path>>

\* drop(h)
Drop(k) ==
    /\ ~aborted
    /\ k \in LiveHandles
    /\ LET h == handles[k]
           r == RefDrop(h, arcs)
       IN  /\ arcs' = r.arcs
           /\ handles' = [handles EXCEPT ![k].live = FALSE]
           /\ last' = [NoLast EXCEPT !.op = "drop", !.outcome = r.outcome, !.h = k,
                                     !.before = arcs[h.ref_cnt].value]
    /\ UNCHANGED <<pools, poolLive, registry, aborted, pc, path>>

\* drop(pool)
DropPool(p) ==
    /\ ~aborted
    /\ p \in poolLive
    /\ arcs' = PoolDropArcs(pools[p], arcs)
    /\ pools' = [pools EXCEPT ![p] = NewPool]
    /\ poolLive' = poolLive \ {p}
    /\ last' = [NoLast EXCEPT !.op = "drop_pool", !.who = p]
    /\ UNCHANGED <<handles, registry, aborted, pc, path>>

\* add_local_resource on a map shared by all threads (a plain static instead
\* of thread_local!).
RegAdd_Shared(t, ty, v) ==
    /\ ~aborted
    /\ Len(handles) < MaxAdds
    /\ LET c == Len(arcs) + 1
           r == AddLocalResource(registry[t], ty, v, c)
       IN  /\ registry' = [u \in Threads |-> r.map]
           /\ IF r.outcome = "ok"
              THEN /\ arcs' = Append(arcs, ArcClone(ArcNew(1)))
                   /\ handles' = Append(handles, ResourceRef(r.idx, ty, c, t, v))
              ELSE UNCHANGED <<arcs, handles>>
           /\ last' = [NoLast EXCEPT !.op = "reg_add", !.outcome = r.outcome, !.who = t,
                                     !.ty = ty, !.value = v,
                                     !.h = IF r.outcome = "ok" THEN Len(handles) + 1 ELSE 0]
    /\ UNCHANGED <<pools, poolLive, aborted, pc, path>>

\* add_local_resource::<ty>(v) on thread t
RegAdd(t, ty, v) ==
    /\ ~aborted
    /\ Len(handles) < MaxAdds
    /\ LET c == Len(arcs) + 1
           r == AddLocalResource(registry[t], ty, v, c)
       IN  /\ registry' = [registry EXCEPT ![t] = r.map]
           /\ IF r.outcome = "ok"
              THEN /\ arcs' = Append(arcs, ArcClone(ArcNew(1)))
                   /\ handles' = Append(handles, ResourceRef(r.idx, ty, c, t, v))
              ELSE UNCHANGED <<arcs, handles>>
           /\ last' = [NoLast EXCEPT !.op = "reg_add", !.outcome = r.outcome, !.who = t,
                                     !.ty = ty, !.value = v,
                                     !.h = IF r.outcome = "ok" THEN Len(handles) + 1 ELSE 0]
    /\ UNCHANGED <<pools, poolLive, aborted, pc, path>>

\* with_local_resource(&h, f) on thread t
With(t, k, f) ==
    /\ ~aborted
    /\ k \in LiveHandles
    /\ LET r == WithLocalResource(registry[t], handles[k], f) IN
       /\ registry' = [registry EXCEPT ![t] = r.map]
       /\ last' = [NoLast EXCEPT !.op = "with", !.outcome = r.outcome, !.who = t,
                                 !.ty = handles[k].type_id, !.h = k, !.value = r.calls,
                                 !.cb = f.kind, !.nested = r.nested]
    /\ UNCHANGED <<pools, poolLive, arcs, handles, aborted, pc, path>>

\* with_local_resource_pool::<ty, _>(f) on thread t
WithPool(t, ty, f) ==
    /\ ~aborted
    /\ LET r == WithLocalResourcePool(registry[t], ty, f) IN
       /\ registry' = [registry EXCEPT ![t] = r.map]
       /\ last' = [NoLast EXCEPT !.op = "with_pool", !.outcome = r.outcome, !.who = t,
                                 !.ty = ty, !.value = r.calls,
                                 !.cb = f.kind, !.nested = r.nested]
    /\ UNCHANGED <<pools, poolLive, arcs, handles, aborted, pc, path>>

\* ------------------------------------------------------------ threads
\* ResourceRef is Send + Sync: a thread may clone a handle it shares by
\* reference and drop a handle it owns.  Each thread runs one clone or drop
\* at a time, one instruction per step; the steps of different threads
\* interleave.  The Arc operations (clone, get_mut's uniqueness test, drop)
\* are atomic; the update of the u32 through the &mut is a plain read
\* followed by a plain write.

\* The handles some thread is inside a clone or drop of.
InUse == {pc[t].h : t \in {u \in Threads : pc[u].op \in {"clone", "drop"}}}

\* clone, first statement: ret = Self { .., ref_cnt: self.ref_cnt.clone() }
BeginClone(t, k) ==
    /\ ~aborted
    /\ pc[t] = Idle
    /\ k \in LiveHandles
    /\ Len(handles) < MaxAdds + 2
    /\ arcs' = [arcs EXCEPT ![handles[k].ref_cnt] = ArcClone(@)]
    /\ pc' = [pc EXCEPT ![t] = At("clone", "getmut", k, 0, FALSE)]
    /\ UNCHANGED <<pools, poolLive, handles, registry, aborted, last, path>>

\* drop(h) of a handle the thread owns: no other thread is using it.
BeginDrop(t, k) ==
    /\ ~aborted
    /\ pc[t] = Idle
    /\ k \in LiveHandles
    /\ k \notin InUse
    /\ handles' = [handles EXCEPT ![k].live = FALSE]
    /\ pc' = [pc EXCEPT ![t] = At("drop", "getmut", k, 0, FALSE)]
    /\ UNCHANGED <<pools, poolLive, arcs, registry, aborted, last, path>>

\* Arc::get_mut(&mut ..ref_cnt).unwrap().  On None the unwrap panics: in
\* clone, unwinding starts by dropping ret (whose drop begins with the same
\* call); in drop, the field ref_cnt is still released and the thread ends,
\* unless the thread was already unwinding, which aborts the process.
GetMutStep(t) ==
    /\ ~aborted
    /\ pc[t].at = "getmut"
    /\ LET c == handles[pc[t].h].ref_cnt IN
       IF ArcGetMut(arcs[c])
       THEN /\ pc' = [pc EXCEPT ![t].at = "load"]
            /\ UNCHANGED <<arcs, aborted>>
       ELSE IF pc[t].op = "clone"
       THEN /\ pc' = [pc EXCEPT ![t] = At("drop", "getmut", pc[t].h, 0, TRUE)]
            /\ UNCHANGED <<arcs, aborted>>
       ELSE IF pc[t].unwinding
       THEN /\ aborted' = TRUE
            /\ UNCHANGED <<arcs, pc>>
       ELSE /\ arcs' = [arcs EXCEPT ![c] = ArcDrop(@)]
            /\ pc' = [pc EXCEPT ![t] = Dead]
            /\ UNCHANGED aborted
    /\ UNCHANGED <<pools, poolLive, handles, registry, last, path>>

\* the read of *.. += 1 / *.. -= 1
LoadStep(t) ==
    /\ ~aborted
    /\ pc[t].at = "load"
    /\ pc' = [pc EXCEPT ![t].at = "store",
                        ![t].tmp = arcs[handles[pc[t].h].ref_cnt].value]
    /\ UNCHANGED <<pools, poolLive, arcs, handles, registry, aborted, last, path>>

\* the write of *.. += 1 / *.. -= 1, and the end of the function: clone
\* returns ret; drop releases the field ref_cnt (and, when it was the drop of
\* clone's ret, the panic goes on and ends the thread).  The counter is at
\* least 1 whenever drop gets here, so the u32 subtraction cannot underflow.
StoreStep(t) ==
    /\ ~aborted
    /\ pc[t].at = "store"
    /\ LET k == pc[t].h
           c == handles[k].ref_cnt
       IN  IF pc[t].op = "clone"
           THEN /\ arcs' = [arcs EXCEPT ![c].value = pc[t].tmp + 1]
                /\ handles' = Append(handles, handles[k])
                /\ pc' = [pc EXCEPT ![t] = Idle]
           ELSE /\ arcs' = [arcs EXCEPT ![c] = ArcDrop([@ EXCEPT !.value = pc[t].tmp - 1])]
                /\ handles' = handles
                /\ pc' = [pc EXCEPT ![t] = IF pc[t].unwinding THEN Dead ELSE Idle]
    /\ UNCHANGED <<pools, poolLive, registry, aborted, last, path>>

\* The pool and its handles, used directly by the caller.
Next ==
    \/ \E p \in Pools, v \in Vals : Add(p, v)
    \/ \E p \in Pools, k \in DOMAIN handles : Get(p, k)
    \/ \E p \in Pools, k \in DOMAIN handles : GetMut(p, k)
    \/ \E k \in DOMAIN handles : Clone(k)
    \/ \E k \in DOMAIN handles : Drop(k)
    \/ \E p \in Pools : DropPool(p)

Spec == Init /\ [][Next]_vars

\* The thread-local registry next to directly owned pools, whose handles
\* (same element type, hence same type tag) can be passed to it.
NextRegistry ==
    \/ \E p \in Pools, v \in Vals : Add(p, v)
    \/ \E p \in Pools, k \in DOMAIN handles : Get(p, k)
    \/ \E p \in Pools, k \in DOMAIN handles : GetMut(p, k)
    \/ \E t \in Threads, ty \in TypeIds, v \in Vals : RegAdd(t, ty, v)
    \/ \E t \in Threads, k \in DOMAIN handles, f \in Callbacks : With(t, k, f)
    \/ \E t \in Threads, ty \in TypeIds, f \in Callbacks : WithPool(t, ty, f)

SpecRegistry == Init /\ [][NextRegistry]_vars

\* ------------------------------------------------------------ add on any pool
\* ResourcePool::add, get and get_mut as functions of the pool value: pool p1
\* starts as any ResourcePool value of at most MaxInitSlots slots that obeys
\* the data model (the free list holds exactly the vacant indices, once
\* each, in any order), every occupied slot having its handle alive.  The
\* free-list branch of add is reached from these values only: no operation
\* of the source pushes onto free_indices.
Shapes == UNION {[1..n -> 0..MaxVal] : n \in 0..MaxInitSlots}
VacantIdx(s) == {i - 1 : i \in {j \in DOMAIN s : s[j] = 0}}
Orders(S) == {f \in [1..Cardinality(S) -> S] : \A i, j \in DOMAIN f : i # j => f[i] # f[j]}
Rank(s, i) == Cardinality({j \in 1..i : s[j] # 0})
SlotOf(s, k) == CHOOSE i \in DOMAIN s : s[i] # 0 /\ Rank(s, i) = k

InitPool ==
    \E s \in Shapes :
      \E f \in Orders(VacantIdx(s)) :
        /\ pools = [p \in Pools |->
                      IF p = "p1"
                      THEN [entries |-> [i \in DOMAIN s |->
                                           IF s[i] = 0 THEN None ELSE Some(s[i], Rank(s, i))],
                            free_indices |-> f]
                      ELSE NewPool]
        /\ poolLive = Pools
        /\ arcs = [k \in 1..Rank(s, Len(s)) |-> ArcClone(ArcNew(1))]
        /\ handles = [k \in 1..Rank(s, Len(s)) |->
                        ResourceRef(SlotOf(s, k) - 1, PoolTypeId, k, "p1", s[SlotOf(s, k)])]
        /\ registry = [t \in Threads |-> [ty \in TypeIds |-> NoBox]]
        /\ aborted = FALSE
        /\ last = NoLast
        /\ pc = [t \in Threads |-> Idle]
        /\ path = NoPath

NextPool ==
    \/ \E p \in Pools, v \in Vals : Add(p, v)
    \/ \E p \in Pools, k \in DOMAIN handles : Get(p, k)
    \/ \E p \in Pools, k \in DOMAIN handles : GetMut(p, k)

SpecPool == InitPool /\ [][NextPool]_vars

\* ------------------------------------------------------------ two threads
\* Handles issued by pools (which the owner may drop at any time) are cloned
\* and dropped by two threads, instruction by instruction.
NextRace ==
    \/ \E p \in Pools, v \in Vals : Add(p, v)
    \/ \E p \in Pools : DropPool(p)
    \/ \E t \in Threads, k \in DOMAIN handles : BeginClone(t, k)
    \/ \E t \in Threads, k \in DOMAIN handles : BeginDrop(t, k)
    \/ \E t \in Threads : GetMutStep(t)
    \/ \E t \in Threads : LoadStep(t)
    \/ \E t \in Threads : StoreStep(t)

SpecRace == Init /\ [][NextRace]_vars

\* ------------------------------------------------------------ paths
\* A &str is the sequence of its characters; the alphabet has the separator
\* and two other characters.
Chars == {"a", "b", "/"}
RECURSIVE StrsOfLen(_)
StrsOfLen(n) ==
    IF n = 0 THEN {<<>>}
    ELSE {Append(s, c) : s \in StrsOfLen(n - 1), c \in Chars}
Strs == UNION {StrsOfLen(n) : n \in 0..MaxLen}

\* str::find(char): the 0-based index of the first occurrence, or None.
str_find(s, c) ==
    LET hits == {i \in 1..Len(s) : s[i] = c} IN
    IF hits = {} THEN [some |-> FALSE, ix |-> 0]
    ELSE [some |-> TRUE, ix |-> (CHOOSE i \in hits : \A j \in hits : i <= j) - 1]

\* get_dir that cuts at the last separator.
get_dir_Last(p) ==
    LET hits == {i \in 1..Len(p) : p[i] = "/"} IN
    IF hits = {} THEN <<>>
    ELSE SubSeq(p, 1, (CHOOSE i \in hits : \A j \in hits : i >= j) - 1)

\* get_dir: &path[0..ix] for the first '/', String::new() when there is none.
get_dir(p) ==
    LET found == str_find(p, "/") IN
    IF found.some THEN SubSeq(p, 1, found.ix) ELSE <<>>

\* get_asset_path_local that joins with the separator whatever base_dir is.
get_asset_path_local_Join(base_dir, p) ==
    base_dir \o <<"/">> \o p

\* get_asset_path_local: path itself for an empty base_dir, else
\* format!("{ }/{}", base_dir, path).
get_asset_path_local(base_dir, p) ==
    IF Len(base_dir) = 0 THEN p
    ELSE base_dir \o <<"/">> \o p

\* The arguments of the call to come: two strings of up to MaxLen characters.
InitPath ==
    /\ pools = [p \in Pools |-> NewPool]
    /\ poolLive = Pools
    /\ arcs = <<>>
    /\ handles = <<>>
    /\ registry = [t \in Threads |-> [ty \in TypeIds |-> NoBox]]
    /\ aborted = FALSE
    /\ last = NoLast
    /\ pc = [t \in Threads |-> Idle]
    /\ \E base_dir \in Strs, p \in Strs :
          path = [op |-> "none", base |-> base_dir, rel |-> p, out |-> <<>>]

GetDir ==
    /\ path.op = "none"
    /\ path' = [path EXCEPT !.op = "get_dir", !.out = get_dir(path.rel)]
    /\ UNCHANGED <<pools, poolLive, arcs, handles, registry, aborted, last, pc>>

GetAssetPathLocal ==
    /\ path.op = "none"
    /\ path' = [path EXCEPT !.op = "get_asset_path_local",
                            !.out = get_asset_path_local(path.base, path.rel)]
    /\ UNCHANGED <<pools, poolLive, arcs, handles, registry, aborted, last, pc>>

NextPath ==
    \/ GetDir
    \/ GetAssetPathLocal

SpecPath == InitPath /\ [][NextPath]_vars

\* ============================================================ claims

\* C1: every live handle issued by a pool's add reads back, through get and
\* get_mut on that pool, exactly the value that was added under it, however
\* many adds followed; and a get/get_mut call that was made with such a
\* handle returned that value.
C1_RoundTrip ==
    /\ \A k \in LiveHandles :
          handles[k].pool \in poolLive =>
             /\ PoolGet(pools[handles[k].pool], handles[k])
                   = [outcome |-> "ok", value |-> handles[k].val]
             /\ PoolGetMut(pools[handles[k].pool], handles[k])
                   = [outcome |-> "ok", value |-> handles[k].val]
    /\ (last.op \in {"get", "get_mut"} /\ handles[last.h].pool = last.who) =>
          (last.outcome = "ok" /\ last.value = handles[last.h].val)

\* A get through the first handle of a pool that has since grown by a second
\* slot holding another value.
C1_Witness ==
    /\ last.op = "get" /\ last.outcome = "ok"
    /\ handles[last.h].pool = last.who
    /\ handles[last.h].idx = 0
    /\ Len(pools[last.who].entries) >= 2
    /\ pools[last.who].entries[2].resource # last.value

\* C2: for every counter cell still allocated, the counter's value equals
\* the number of live handle copies that refer to it (1 after add, one more
\* after each clone, one less after each drop).
C2_CounterEqualsLiveCopies ==
    \A c \in DOMAIN arcs :
        arcs[c].strong > 0 =>
            arcs[c].value = Cardinality({k \in LiveHandles : handles[k].ref_cnt = c})

\* C3: clone() of a live handle completes and returns a new handle with the
\* same slot index and type tag, and the shared counter is one greater than
\* before the call.
C3_CloneReturnsCopy ==
    last.op = "clone" =>
        /\ last.outcome = "ok"
        /\ last.value \in DOMAIN handles
        /\ handles[last.value].idx = handles[last.h].idx
        /\ handles[last.value].type_id = handles[last.h].type_id
        /\ arcs[handles[last.h].ref_cnt].value = last.before + 1

\* C4: drop() of a live handle completes normally and leaves the shared
\* counter exactly one below its value before the call, also while the
\* issuing pool still holds the slot's entry.
C4_DropDecrements ==
    last.op = "drop" =>
        /\ last.outcome = "ok"
        /\ arcs[handles[last.h].ref_cnt].value = last.before - 1

\* C5: an add step on pool p with a non-empty free list takes the index
\* pushed last, stores the value there and keeps the slot count; with an
\* empty free list it appends one slot and the handle's index is the previous
\* slot count.  Either way the call returns normally, every other slot and
\* pool is untouched, and the handle's counter is 1 and its tag T's.
C5_AddPlacement ==
    [][(last'.op = "add" /\ pools' # pools) =>
         LET p == last'.who
             old == pools[p]
             new == pools'[p]
             n == Len(old.free_indices)
             h == handles'[Len(handles')]
         IN  /\ last'.outcome = "ok"
             /\ Len(handles') = Len(handles) + 1
             /\ last'.h = Len(handles')
             /\ IF n > 0
                THEN /\ h.idx = old.free_indices[n]
                     /\ new.free_indices = SubSeq(old.free_indices, 1, n - 1)
                     /\ Len(new.entries) = Len(old.entries)
                ELSE /\ h.idx = Len(old.entries)
                     /\ new.free_indices = <<>>
                     /\ Len(new.entries) = Len(old.entries) + 1
             /\ \A i \in DOMAIN old.entries : i # h.idx + 1 => new.entries[i] = old.entries[i]
             /\ new.entries[h.idx + 1] = Some(last'.value, h.ref_cnt)
             /\ \A q \in Pools \ {p} : pools'[q] = pools[q]
             /\ arcs'[h.ref_cnt].value = 1
             /\ h.type_id = PoolTypeId
             /\ h.live
      ]_vars

\* An add that reused a free index while an older free index stayed behind.
C5_Witness ==
    /\ last.op = "add" /\ last.outcome = "ok"
    /\ handles[last.h].idx < last.before
    /\ Len(pools[last.who].entries) = last.before
    /\ Len(pools[last.who].free_indices) >= 1

\* An add that grew the pool: the handle's index is the previous slot count.
C5_WitnessGrow ==
    /\ last.op = "add" /\ last.outcome = "ok"
    /\ last.before >= 1
    /\ handles[last.h].idx = last.before
    /\ Len(pools[last.who].entries) = last.before + 1

\* C6: in every live pool an index is in the free list iff its slot is
\* vacant, no index occurs twice in the free list, every free index is
\* within the slot sequence, and no two live handles issued by distinct adds
\* of the same pool carry the same index.
C6_PoolInvariant ==
    /\ \A p \in poolLive :
         LET pool == pools[p]
             free == {pool.free_indices[j] : j \in DOMAIN pool.free_indices}
         IN  /\ \A i \in 0..(Len(pool.entries) - 1) :
                   (i \in free) <=> ~pool.entries[i + 1].some
             /\ \A i, j \in DOMAIN pool.free_indices :
                   i # j => pool.free_indices[i] # pool.free_indices[j]
             /\ \A i \in free : i >= 0 /\ i < Len(pool.entries)
    /\ \A j, k \in LiveHandles :
         (j # k /\ handles[j].pool = handles[k].pool) => handles[j].idx # handles[k].idx

\* Two occupied slots of one pool, each with its live handle.
C6_Witness ==
    \E p \in poolLive :
        /\ Len(pools[p].entries) >= 2
        /\ Cardinality({k \in LiveHandles : handles[k].pool = p}) >= 2

\* C7: a get or get_mut step whose handle index is out of range of the
\* pool's slots, or denotes a vacant slot, panics and returns no value; and
\* no get or get_mut step changes any pool's slots or free list.
C7_GetPanics ==
    [][(last'.op \in {"get", "get_mut"}) =>
         LET pool == pools[last'.who]
             h == handles[last'.h]
         IN  /\ pools' = pools
             /\ (h.idx >= Len(pool.entries) \/ ~pool.entries[h.idx + 1].some) =>
                   (last'.outcome = "panic" /\ last'.value = 0)
      ]_vars

\* A get that panicked on a vacant slot within range.
C7_Witness ==
    /\ last.op = "get" /\ last.outcome = "panic"
    /\ handles[last.h].idx < Len(pools[last.who].entries)
    /\ ~pools[last.who].entries[handles[last.h].idx + 1].some

\* A get_mut that panicked on an index beyond the slot sequence.
C7_WitnessRange ==
    /\ last.op = "get_mut" /\ last.outcome = "panic"
    /\ handles[last.h].idx >= Len(pools[last.who].entries)

\* C8 as stated: every get, get_mut or with call made with a handle that was
\* not issued for the accessed pool panics.
C8_MisuseAlwaysPanics ==
    (last.op \in {"get", "get_mut", "with"} /\ handles[last.h].pool # last.who) =>
        last.outcome = "panic"

\* C8 amended: a get or get_mut made with a handle issued by another pool of
\* the same type panics exactly when the handle's index is out of range of
\* the accessed pool or denotes a vacant slot there; otherwise it returns
\* normally the resource the accessed pool stores at that index.  A with
\* call made with such a handle panics without invoking the callback.
C8_MisuseBoundsChecked ==
    /\ (last.op \in {"get", "get_mut"} /\ handles[last.h].pool # last.who) =>
          LET pool == pools[last.who]
              i == handles[last.h].idx
          IN  IF i < Len(pool.entries) /\ pool.entries[i + 1].some
              THEN last.outcome = "ok" /\ last.value = pool.entries[i + 1].resource
              ELSE last.outcome = "panic" /\ last.value = 0
    /\ (last.op = "with" /\ handles[last.h].pool # last.who) =>
          (last.outcome = "panic" /\ last.value = 0)

\* A get_mut on one pool with a handle of the other pool that returned
\* normally a resource different from the one added under the handle.
C8_Witness ==
    /\ last.op = "get_mut" /\ last.outcome = "ok"
    /\ handles[last.h].pool # last.who
    /\ last.value # handles[last.h].val

\* C9: a registry add returns normally, and afterwards the calling thread's
\* registry maps the type tag to a pool that holds the value.
C9_RegistryAddSucceeds ==
    last.op = "reg_add" =>
        /\ last.outcome = "ok"
        /\ Downcast(registry[last.who][last.ty], "ResourcePool")
        /\ \E i \in DOMAIN registry[last.who][last.ty].val.entries :
              registry[last.who][last.ty].val.entries[i] =
                  Some(last.value, handles[last.h].ref_cnt)

\* C10: a with call on a thread whose registry add has run for the handle's
\* type returns normally after invoking the callback exactly once.
C10_WithInvokesFnOnce ==
    (last.op = "with" /\ registry[last.who][last.ty].present) =>
        (last.outcome = "ok" /\ last.value = 1)

C13_Witness ==
    /\ aborted
    /\ pc["A"].h = pc["B"].h
    /\ pc["A"].op = "drop" /\ pc["A"].unwinding
    /\ pc["B"].op = "clone"

C14_Resolve ==
    path.op = "get_asset_path_local" =>
        IF path.base = <<>>
        THEN path.out = path.rel
        ELSE /\ Len(path.out) = Len(path.base) + 1 + Len(path.rel)
             /\ SubSeq(path.out, 1, Len(path.base)) = path.base
             /\ path.out[Len(path.base) + 1] = "/"
             /\ SubSeq(path.out, Len(path.base) + 2, Len(path.out)) = path.rel

\* A non-empty base directory joined with a non-empty path: "ab" and "a"
\* give "ab/a".
C14_Witness ==
    /\ path.op = "get_asset_path_local"
    /\ path.base = <<"a", "b">> /\ path.rel = <<"a">>
    /\ path.out = <<"a", "b", "/", "a">>

\* An empty base directory: the path comes back as it was given.
C14_WitnessEmpty ==
    /\ path.op = "get_asset_path_local"
    /\ path.base = <<>> /\ path.rel = <<"a", "/", "b">>
    /\ path.out = <<"a", "/", "b">>

\* C15: every get_dir(path) returns a prefix of path that contains no '/';
\* when path contains a '/', the character of path right after that prefix
\* is '/' (the prefix ends just before the first '/'); when path contains
\* none, the result is empty.
C15_DirOf ==
    path.op = "get_dir" =>
        /\ \A i \in 1..Len(path.out) : path.out[i] # "/"
        /\ Len(path.out) <= Len(path.rel)
        /\ SubSeq(path.rel, 1, Len(path.out)) = path.out
        /\ IF \E i \in 1..Len(path.rel) : path.rel[i] = "/"
           THEN path.rel[Len(path.out) + 1] = "/"
           ELSE path.out = <<>>

\* A path with two separators: "a//" gives "a".
C15_Witness ==
    /\ path.op = "get_dir"
    /\ path.rel = <<"a", "/", "/">>
    /\ path.out = <<"a">>

\* A path without a separator: "abb" gives the empty string.
C15_WitnessNone ==
    /\ path.op = "get_dir"
    /\ path.rel = <<"a", "b", "b">>
    /\ path.out = <<>>

====
